---- MODULE Spec2Model ----
(***************************************************************************)
(* Model of scripts/update_data.py: the Alpha Vantage price updater.       *)
(* One run loads data/prices.json, fetches every configured ticker in      *)
(* order, extracts and merges the adjusted-close series, sleeps, and then  *)
(* decides whether to write the dataset back.                              *)
(*                                                                         *)
(* Dates are ISO strings; Python compares them as strings, which is the    *)
(* position in DateOrder.  A float is written as its Python repr.          *)
(***************************************************************************)
EXTENDS Integers, Sequences, FiniteSets, TLC

----------------------------------------------------------------------------
(* Data domains *)

DateOrder == <<"2025-06-30", "2025-07-01">>
Dates == {DateOrder[k] : k \in 1..Len(DateOrder)}
DateIndex(d) == CHOOSE k \in 1..Len(DateOrder) : DateOrder[k] = d
\* d < e on ISO date strings (line 64)
DateLt(d, e) == DateIndex(d) < DateIndex(e)

Syms == {"NVDA", "GOOG"}

\* A series is a dict date -> float: a function on a subset of Dates.
EmptySeries == [d \in {} |-> "0.0"]
SeriesOver(V) == UNION {[S -> V] : S \in SUBSET Dates}

\* Python floats, by repr.
Floats == {"10.0", "11.5", "nan", "inf"}
IsFinite(v) == v \notin {"nan", "inf"}

\* The value an entry of the time series holds under "5. adjusted close":
\* the key missing, JSON null, a JSON string, a JSON number, a JSON array.
Field(t, s) == [t |-> t, s |-> s]
Absent == Field("absent", "")
RawFields ==
    { Absent, Field("null", ""), Field("list", ""), Field("num", "10.0"),
      Field("str", "10.0"), Field("str", "10"), Field("str", "11.5"),
      Field("str", "abc"), Field("str", "nan"), Field("str", "inf") }

\* float(adj): what it returns, or the exception it raises.
FloatOfStr(s) ==
    CASE s = "10.0" -> "10.0"
      [] s = "10"   -> "10.0"
      [] s = "11.5" -> "11.5"
      [] s = "nan"  -> "nan"
      [] s = "inf"  -> "inf"
      [] OTHER      -> "ValueError"
FloatOf(adj) ==
    CASE adj.t = "str" -> FloatOfStr(adj.s)
      [] adj.t = "num" -> adj.s
      [] OTHER         -> "TypeError"

----------------------------------------------------------------------------
(* extract_adjusted_close_series *)

\* The entries the loop reaches float() with: not before the cutoff, and
\* fields.get(...) is not None.
Parsed(series, earliest_date) ==
    { d \in DOMAIN series :
        /\ ~DateLt(d, earliest_date)
        /\ series[d].t \notin {"absent", "null"} }

\* Only ValueError is caught; any other exception leaves the function.
ExtractRaises(series, earliest_date) ==
    \E d \in Parsed(series, earliest_date) : FloatOf(series[d]) = "TypeError"

extract_adjusted_close_series(series, earliest_date) ==
    LET kept == { d \in Parsed(series, earliest_date) :
                    FloatOf(series[d]) \notin {"ValueError", "TypeError"} }
    IN  [d \in kept |-> FloatOf(series[d])]

----------------------------------------------------------------------------
(* merge_series and the comparison merged != existing *)

\* existing or {}
OrEmpty(x) == IF DOMAIN x = {} THEN EmptySeries ELSE x

merge_symdiff(existing, incoming) ==
    [d \in (DOMAIN existing \ DOMAIN incoming) \cup (DOMAIN incoming \ DOMAIN existing)
       |-> IF d \in DOMAIN incoming THEN incoming[d] ELSE existing[d]]

merge_left(existing, incoming) ==
    [d \in DOMAIN existing \cup DOMAIN incoming
       |-> IF d \in DOMAIN existing THEN existing[d] ELSE incoming[d]]

merge_replace(existing, incoming) == incoming

merge_series(existing, incoming) ==
    LET e == OrEmpty(existing)
        n == OrEmpty(incoming)
    IN  [d \in DOMAIN e \cup DOMAIN n |-> IF d \in DOMAIN n THEN n[d] ELSE e[d]]

\* a == b on two distinct float objects: nan equals nothing.
FloatEq(a, b) == a = b /\ a # "nan"

\* merged != existing, for merged = merge_series(existing, incoming): dict
\* comparison takes identical objects as equal.  The values merged took from
\* existing are the same objects; those it took from incoming are new ones.
DictNe(merged, existing, incoming) ==
    \/ DOMAIN merged # DOMAIN existing
    \/ \E d \in DOMAIN merged \cap DOMAIN incoming :
          ~FloatEq(merged[d], existing[d])

\* current_series.get(sym, {})
GetSeries(cs, sym) == IF sym \in DOMAIN cs THEN cs[sym] ELSE EmptySeries

\* current_series[sym] = merged
PutSeries(cs, sym, merged) ==
    [s \in DOMAIN cs \cup {sym} |-> IF s = sym THEN merged ELSE cs[s]]

\* Lines 113-121 for one ticker: the new in-memory series and the flag.
MergeInto(cs, sym, incoming) ==
    LET existing == GetSeries(cs, sym)
        merged   == merge_series(existing, incoming)
        changed  == DictNe(merged, existing, incoming)
    IN  [series  |-> IF changed THEN PutSeries(cs, sym, merged) ELSE cs,
         changed |-> changed, called |-> TRUE]

----------------------------------------------------------------------------
(* fetch_daily_adjusted: the checks on the response *)

Container == "Time Series (Daily)"
Keys == {"Error Message", "Note", Container}

\* Lines 48-57, by the keys of the decoded response.
Validate(keys) ==
    IF "Error Message" \in keys THEN "ProviderError"
    ELSE IF "Note" \in keys THEN "RateLimitError"
    ELSE IF Container \notin keys THEN "SchemaError"
    ELSE "ok"

----------------------------------------------------------------------------
(* Inputs of a run *)

DefaultSource ==
    [provider |-> "Alpha Vantage", endpoint |-> "TIME_SERIES_DAILY_ADJUSTED",
     field |-> "5. adjusted close"]
OtherSource ==
    [provider |-> "Alpha Vantage (premium)", endpoint |-> "TIME_SERIES_DAILY_ADJUSTED",
     field |-> "5. adjusted close"]

\* config/predictions.json as main reads it: the symbols, the cutoff, the
\* data_source section.
Config(t, e, s) == [tickers |-> t, earliest_date |-> e, data_source |-> s]
Configs ==
    { Config(<<"NVDA", "GOOG">>, "2025-07-01", DefaultSource),
      Config(<<"GOOG", "NVDA">>, "2025-06-30", DefaultSource),
      Config(<<"GOOG">>, "2025-07-01", OtherSource),
      Config(<<"NVDA", "NVDA">>, "2025-06-30", OtherSource),
      Config(<<>>, "2025-07-01", DefaultSource) }

\* The time series a provider response of a run may carry.
RunFields ==
    { Absent, Field("list", ""), Field("str", "10.0"), Field("str", "nan"),
      Field("str", "abc") }
RunTimeSeries == UNION {[S -> RunFields] : S \in SUBSET Dates}

\* A response as fetch_daily_adjusted judges it: the HTTP status
\* (raise_for_status) and the keys of the decoded body.
Responses == [http_ok : BOOLEAN, keys : SUBSET Keys]
FetchOutcome(resp) == IF ~resp.http_ok THEN "HTTPError" ELSE Validate(resp.keys)
NoResponse == [http_ok |-> TRUE, keys |-> {}]

\* data/prices.json: series, provider/endpoint/field, earliest_date.
Doc(ser, src, e) == [series |-> ser, data_source |-> src, earliest_date |-> e]
NoSource == [provider |-> "", endpoint |-> "", field |-> ""]
NoDoc == Doc(<<>>, NoSource, "")

----------------------------------------------------------------------------
(* State *)

VARIABLES
    pc,              \* where main is: idle, fetch, sleep, persist, done, aborted
    cfg,             \* the configuration this run read
    i,               \* the loop index (enumerate, from 1)
    current_series,  \* current["series"], in memory
    updated_any,
    fileExists,      \* out_path.exists()
    fileDoc,         \* the content of data/prices.json
    startExists,     \* the file as this run found it
    startDoc,
    events,          \* this run's provider calls, merges and pauses, in order
    changed_at,      \* the loop indexes whose merged != existing
    touched,         \* <<sym, date>> of every incoming entry of this run
    writes,          \* dump_json calls of this run
    error,           \* the exception that ended the run
    errResp,         \* the response that raised it
    p_existing,      \* merge_series: the arguments
    p_incoming,
    p_merged,        \* merge_series: the results of merging p_incoming again and again
    p_step,          \* lines 113-121 applied to p_existing and p_incoming
    x_series,        \* extract_adjusted_close_series: the arguments
    x_earliest,
    x_result         \* its outcome

runVars == <<pc, cfg, i, current_series, updated_any, fileExists, fileDoc,
             startExists, startDoc, events, changed_at, touched, writes,
             error, errResp>>
mergeVars == <<p_existing, p_incoming, p_merged, p_step>>
extractVars == <<x_series, x_earliest, x_result>>
vars == <<runVars, mergeVars, extractVars>>

NoStep == [series |-> <<>>, changed |-> FALSE, called |-> FALSE]
NoResult == [called |-> FALSE, raised |-> FALSE, out |-> EmptySeries]

RunInit ==
    /\ pc = "idle"
    /\ cfg = Config(<<>>, "2025-07-01", DefaultSource)
    /\ i = 1
    /\ current_series = <<>>
    /\ updated_any = FALSE
    /\ fileExists = FALSE
    /\ fileDoc = NoDoc
    /\ startExists = FALSE
    /\ startDoc = NoDoc
    /\ events = <<>>
    /\ changed_at = {}
    /\ touched = {}
    /\ writes = 0
    /\ error = "none"
    /\ errResp = NoResponse

MergeInit ==
    /\ p_existing = EmptySeries
    /\ p_incoming = EmptySeries
    /\ p_merged = <<>>
    /\ p_step = NoStep

ExtractInit ==
    /\ x_series = <<>>
    /\ x_earliest = "2025-07-01"
    /\ x_result = NoResult

Init == RunInit /\ MergeInit /\ ExtractInit

----------------------------------------------------------------------------
(* main *)

Tickers == cfg.tickers
Sym == Tickers[i]
Event(op, sym) == <<op, sym>>

\* Lines 94-106: read the configuration, load the dataset, start the loop.
StartRun ==
    /\ pc \in {"idle", "done", "aborted"}
    /\ \E c \in Configs :
          /\ c.tickers # <<>>
          /\ cfg' = c
    /\ pc' = "fetch"
    /\ i' = 1
    /\ current_series' = IF fileExists THEN fileDoc.series ELSE <<>>
    /\ updated_any' = FALSE
    /\ startExists' = fileExists
    /\ startDoc' = fileDoc
    /\ events' = <<>>
    /\ changed_at' = {}
    /\ touched' = {}
    /\ writes' = 0
    /\ error' = "none"
    /\ errResp' = NoResponse
    /\ UNCHANGED <<fileExists, fileDoc, mergeVars, extractVars>>

\* Lines 98-99: no tickers in the configuration.
ConfigRaise ==
    /\ pc \in {"idle", "done", "aborted"}
    /\ \E c \in Configs :
          /\ c.tickers = <<>>
          /\ cfg' = c
    /\ pc' = "aborted"
    /\ error' = "ConfigError"
    /\ i' = 1
    /\ current_series' = <<>>
    /\ updated_any' = FALSE
    /\ startExists' = fileExists
    /\ startDoc' = fileDoc
    /\ events' = <<>>
    /\ changed_at' = {}
    /\ touched' = {}
    /\ writes' = 0
    /\ errResp' = NoResponse
    /\ UNCHANGED <<fileExists, fileDoc, mergeVars, extractVars>>

FetchRaiseSkip ==
    /\ pc = "fetch"
    /\ \E resp \in Responses :
          /\ FetchOutcome(resp) # "ok"
          /\ error' = FetchOutcome(resp)
          /\ errResp' = resp
    /\ events' = Append(events, Event("fetch", Sym))
    /\ pc' = "sleep"
    /\ UNCHANGED <<cfg, i, current_series, updated_any, fileExists, fileDoc,
                   startExists, startDoc, changed_at, touched, writes,
                   mergeVars, extractVars>>

FetchRaiseDump ==
    /\ pc = "fetch"
    /\ \E resp \in Responses :
          /\ FetchOutcome(resp) # "ok"
          /\ error' = FetchOutcome(resp)
          /\ errResp' = resp
    /\ events' = Append(events, Event("fetch", Sym))
    /\ pc' = "aborted"
    /\ fileExists' = TRUE
    /\ fileDoc' = Doc(current_series, cfg.data_source, cfg.earliest_date)
    /\ UNCHANGED <<cfg, i, current_series, updated_any,
                   startExists, startDoc, changed_at, touched, writes,
                   mergeVars, extractVars>>

\* Line 110 when fetch_daily_adjusted raises (lines 45, 48-55): the
\* exception leaves main.
FetchRaise ==
    /\ pc = "fetch"
    /\ \E resp \in Responses :
          /\ FetchOutcome(resp) # "ok"
          /\ error' = FetchOutcome(resp)
          /\ errResp' = resp
    /\ events' = Append(events, Event("fetch", Sym))
    /\ pc' = "aborted"
    /\ UNCHANGED <<cfg, i, current_series, updated_any, fileExists, fileDoc,
                   startExists, startDoc, changed_at, touched, writes,
                   mergeVars, extractVars>>

\* Line 111 when float() raises something other than ValueError.
ExtractRaise ==
    /\ pc = "fetch"
    /\ \E ts \in RunTimeSeries : ExtractRaises(ts, cfg.earliest_date)
    /\ events' = Append(events, Event("fetch", Sym))
    /\ error' = "TypeError"
    /\ pc' = "aborted"
    /\ UNCHANGED <<cfg, i, current_series, updated_any, fileExists, fileDoc,
                   startExists, startDoc, changed_at, touched, writes, errResp,
                   mergeVars, extractVars>>

\* Lines 109-121: fetch, extract, merge, compare.
ProcessTicker ==
    /\ pc = "fetch"
    /\ \E ts \in RunTimeSeries :
          /\ ~ExtractRaises(ts, cfg.earliest_date)
          /\ LET incoming == extract_adjusted_close_series(ts, cfg.earliest_date)
                 r == MergeInto(current_series, Sym, incoming)
             IN  /\ current_series' = r.series
                 /\ updated_any' = (updated_any \/ r.changed)
                 /\ changed_at' = IF r.changed THEN changed_at \cup {i} ELSE changed_at
                 /\ touched' = touched \cup {<<Sym, d>> : d \in DOMAIN incoming}
    /\ events' = events \o <<Event("fetch", Sym), Event("merge", Sym)>>
    /\ pc' = "sleep"
    /\ UNCHANGED <<cfg, i, fileExists, fileDoc, startExists, startDoc, writes,
                   error, errResp, mergeVars, extractVars>>

SleepNotLast ==
    /\ pc = "sleep"
    /\ events' = IF i < Len(Tickers) THEN Append(events, Event("sleep", Sym)) ELSE events
    /\ i' = i + 1
    /\ pc' = IF i < Len(Tickers) THEN "fetch" ELSE "persist"
    /\ UNCHANGED <<cfg, current_series, updated_any, fileExists, fileDoc,
                   startExists, startDoc, changed_at, touched, writes, error,
                   errResp, mergeVars, extractVars>>

\* Line 125, and the loop going on to the next ticker or ending.
Sleep ==
    /\ pc = "sleep"
    /\ events' = Append(events, Event("sleep", Sym))
    /\ i' = i + 1
    /\ pc' = IF i < Len(Tickers) THEN "fetch" ELSE "persist"
    /\ UNCHANGED <<cfg, current_series, updated_any, fileExists, fileDoc,
                   startExists, startDoc, changed_at, touched, writes, error,
                   errResp, mergeVars, extractVars>>

\* Lines 127-132: the document dump_json would write.
Stamped == Doc(current_series, cfg.data_source, cfg.earliest_date)

PersistIfChanged ==
    /\ pc = "persist"
    /\ IF updated_any
         THEN /\ fileExists' = TRUE
              /\ fileDoc' = Stamped
              /\ writes' = writes + 1
         ELSE UNCHANGED <<fileExists, fileDoc, writes>>
    /\ pc' = "done"
    /\ UNCHANGED <<cfg, i, current_series, updated_any, startExists, startDoc,
                   events, changed_at, touched, error, errResp, mergeVars,
                   extractVars>>

\* Lines 127-145: stamp the metadata, write or leave the file.
Persist ==
    /\ pc = "persist"
    /\ IF updated_any \/ ~fileExists
         THEN /\ fileExists' = TRUE
              /\ fileDoc' = Stamped
              /\ writes' = writes + 1
         ELSE UNCHANGED <<fileExists, fileDoc, writes>>
    /\ pc' = "done"
    /\ UNCHANGED <<cfg, i, current_series, updated_any, startExists, startDoc,
                   events, changed_at, touched, error, errResp, mergeVars,
                   extractVars>>

Next ==
    \/ StartRun
    \/ ConfigRaise
    \/ FetchRaise
    \/ ExtractRaise
    \/ ProcessTicker
    \/ Sleep
    \/ Persist

Spec == Init /\ [][Next]_vars

----------------------------------------------------------------------------
(* merge_series and the loop body on their own, over all small series *)

MaxMerges == 2

MergeFloats == {"10.0", "11.5", "nan"}
OtherSeries == [d \in {"2025-07-01"} |-> "10.0"]

\* The in-memory dataset the loop body meets: the ticker's series when it
\* has one, and another ticker's.
StepDataset ==
    IF p_existing = EmptySeries
      THEN [s \in {"GOOG"} |-> OtherSeries]
      ELSE [s \in {"NVDA", "GOOG"} |-> IF s = "NVDA" THEN p_existing ELSE OtherSeries]

InitMerge ==
    /\ RunInit
    /\ ExtractInit
    /\ p_existing \in SeriesOver(MergeFloats)
    /\ p_incoming \in SeriesOver(MergeFloats)
    /\ p_merged = <<>>
    /\ p_step = NoStep

\* merged = merge_series(existing, incoming), then the result merged with
\* the same incoming again.
MergeCall ==
    /\ Len(p_merged) < MaxMerges
    /\ p_merged' = Append(p_merged,
                     merge_series(IF p_merged = <<>> THEN p_existing
                                  ELSE p_merged[Len(p_merged)], p_incoming))
    /\ UNCHANGED <<p_existing, p_incoming, p_step, runVars, extractVars>>

\* Lines 113-121 on StepDataset.
LoopBody ==
    /\ p_step = NoStep
    /\ p_step' = MergeInto(StepDataset, "NVDA", p_incoming)
    /\ UNCHANGED <<p_existing, p_incoming, p_merged, runVars, extractVars>>

NextMerge == MergeCall \/ LoopBody

SpecMerge == InitMerge /\ [][NextMerge]_vars

----------------------------------------------------------------------------
(* extract_adjusted_close_series on its own, over all small responses *)

InitExtract ==
    /\ RunInit
    /\ MergeInit
    /\ x_series \in UNION {[S -> RawFields] : S \in SUBSET Dates}
    /\ x_earliest \in Dates
    /\ x_result = NoResult

Extract ==
    /\ ~x_result.called
    /\ x_result' =
         IF ExtractRaises(x_series, x_earliest)
           THEN [called |-> TRUE, raised |-> TRUE, out |-> EmptySeries]
           ELSE [called |-> TRUE, raised |-> FALSE,
                 out |-> extract_adjusted_close_series(x_series, x_earliest)]
    /\ UNCHANGED <<x_series, x_earliest, runVars, mergeVars>>

NextExtract == Extract

SpecExtract == InitExtract /\ [][NextExtract]_vars

----------------------------------------------------------------------------
(* Properties *)

\* C1: merge_series(E, I) is the right-biased union: its dates are
\* dates(E) \cup dates(I), every date of I holds I's value, every date of E
\* that I lacks holds E's value.
C1_RightBiasedUnion ==
    Len(p_merged) >= 1 =>
      LET m == p_merged[1]
      IN  /\ DOMAIN m = DOMAIN p_existing \cup DOMAIN p_incoming
          /\ \A d \in DOMAIN p_incoming : m[d] = p_incoming[d]
          /\ \A d \in DOMAIN p_existing \ DOMAIN p_incoming : m[d] = p_existing[d]

\* A merge where one date is overwritten with another value and one date
\* of E is kept.
C1_Witness ==
    /\ Len(p_merged) >= 1
    /\ \E d \in DOMAIN p_existing \cap DOMAIN p_incoming :
          p_existing[d] # p_incoming[d]
    /\ DOMAIN p_existing \ DOMAIN p_incoming # {}

\* C2: merging the same incoming series into the result again returns the
\* result: merge(merge(E, I), I) = merge(E, I).  (The second result holds
\* the very float objects of the first, so Python's == agrees with =.)
C2_Idempotent ==
    \A k \in 2..Len(p_merged) : p_merged[k] = p_merged[1]

\* A second merge after a first one that changed the existing series.
C2_Witness ==
    /\ Len(p_merged) >= 2
    /\ p_existing # EmptySeries
    /\ DOMAIN p_existing \cap DOMAIN p_incoming # {}
    /\ p_merged[1] # p_existing

C4_NoPartialWrite ==
    /\ pc = "aborted" =>
         fileExists = startExists /\ fileDoc = startDoc /\ writes = 0
    /\ (pc = "fetch" /\ events = <<>>) =>
         current_series = (IF fileExists THEN fileDoc.series ELSE <<>>)

\* The second ticker fails after the first one was merged in memory.
C4_Witness ==
    /\ pc = "aborted"
    /\ error \in {"ProviderError", "RateLimitError", "SchemaError"}
    /\ i = 2
    /\ updated_any
    /\ current_series # startDoc.series

\* C5 (as claimed): the changed flag is true exactly when incoming holds a
\* date that existing lacks or a date whose value is not the one existing
\* holds, and the in-memory series is replaced only then.
C5_ChangeDetection ==
    p_step.called =>
      LET differs == \E d \in DOMAIN p_incoming :
                        \/ d \notin DOMAIN p_existing
                        \/ p_existing[d] # p_incoming[d]
      IN  /\ p_step.changed <=> differs
          /\ ~differs => p_step.series = StepDataset

\* C6 (as claimed): extraction does not raise; every entry of the output is
\* on or after the cutoff, has the field, and holds its value as a finite
\* number; every other entry is absent.
C6_ExtractFinite ==
    x_result.called =>
      /\ ~x_result.raised
      /\ \A d \in DOMAIN x_result.out :
            /\ d \in DOMAIN x_series
            /\ ~DateLt(d, x_earliest)
            /\ x_series[d].t \notin {"absent", "null"}
            /\ x_result.out[d] = FloatOf(x_series[d])
            /\ IsFinite(x_result.out[d])
      /\ \A d \in DOMAIN x_series :
            (/\ ~DateLt(d, x_earliest)
             /\ x_series[d].t \in {"str", "num"}
             /\ FloatOf(x_series[d]) \in {v \in Floats : IsFinite(v)})
            => d \in DOMAIN x_result.out

FetchErrors == {"ProviderError", "RateLimitError", "SchemaError"}

\* The run stopped at the provider call of ticker i: the tickers before it
\* were fetched, merged and paused for, ticker i was fetched and nothing
\* else happened.
StoppedAtFetch ==
    /\ pc = "aborted"
    /\ Len(events) = 3 * (i - 1) + 1
    /\ events[Len(events)] = Event("fetch", Tickers[i])
    /\ \A k \in 1..Len(events) :
          events[k][1] = "merge" => k < Len(events) - 1

\* C7 (as claimed): an error indicator gives ProviderError, a throttle
\* indicator gives RateLimitError, a missing container gives SchemaError,
\* and the run stops at that provider call.
C7_ValidationOriginal ==
    (error \in FetchErrors) =>
      /\ "Error Message" \in errResp.keys => error = "ProviderError"
      /\ "Note" \in errResp.keys => error = "RateLimitError"
      /\ Container \notin errResp.keys => error = "SchemaError"
      /\ StoppedAtFetch

\* C7 (amended): the indicators are looked at in this order, and the first
\* one found decides: error indicator, ProviderError; else throttle
\* indicator, RateLimitError; else no container, SchemaError.  The run
\* stops at that provider call: the ticker is not merged, no later ticker
\* is fetched.
C7_Validation ==
    /\ (error \in FetchErrors) =>
         /\ "Error Message" \in errResp.keys => error = "ProviderError"
         /\ ("Error Message" \notin errResp.keys /\ "Note" \in errResp.keys)
               => error = "RateLimitError"
         /\ (errResp.keys \cap {"Error Message", "Note"} = {}
             /\ Container \notin errResp.keys) => error = "SchemaError"
         /\ StoppedAtFetch
    /\ (pc \in {"fetch", "sleep", "persist", "done"}) => error = "none"

\* The second ticker's response carries both indicators.
C7_Witness ==
    /\ error = "ProviderError"
    /\ {"Error Message", "Note"} \subseteq errResp.keys
    /\ i = 2
    /\ Len(Tickers) = 2

\* Ticker k fetched, merged, paused for, for k = 1..n.
Rounds(n) ==
    [j \in 1..(3 * n) |->
        Event(CASE j % 3 = 1 -> "fetch" [] j % 3 = 2 -> "merge" [] OTHER -> "sleep",
              Tickers[(j + 2) \div 3])]

\* C8: the tickers are fetched in the configured order, each entry of the
\* list once; every processed ticker is followed by one pause, also the
\* last, and the persistence decision comes after that pause.
C8_OrderAndPacing ==
    /\ pc = "fetch" => events = Rounds(i - 1) /\ i <= Len(Tickers)
    /\ pc = "sleep" =>
         events = Rounds(i - 1) \o <<Event("fetch", Sym), Event("merge", Sym)>>
    /\ pc \in {"persist", "done"} => events = Rounds(Len(Tickers))
    /\ pc # "done" => writes = 0

\* A finished run over two different tickers.
C8_Witness ==
    /\ pc = "done"
    /\ Len(Tickers) = 2
    /\ Tickers[1] # Tickers[2]

\* C9: every (ticker, date) the file held when the run started is in the
\* file now, with the same value unless this run's incoming series of that
\* ticker held that date.
C9_NonDestructive ==
    \A s \in DOMAIN startDoc.series :
      \A d \in DOMAIN startDoc.series[s] :
        /\ fileExists
        /\ s \in DOMAIN fileDoc.series
        /\ d \in DOMAIN fileDoc.series[s]
        /\ fileDoc.series[s][d] # startDoc.series[s][d] => <<s, d>> \in touched

\* A run that wrote the file, changed one value, and kept a ticker that is
\* no longer configured and a date before the cutoff.
C9_Witness ==
    /\ pc = "done"
    /\ writes = 1
    /\ \E s \in DOMAIN startDoc.series :
          /\ s \notin {Tickers[k] : k \in 1..Len(Tickers)}
          /\ startDoc.series[s] # EmptySeries
    /\ \E s \in DOMAIN startDoc.series :
          \E d \in DOMAIN startDoc.series[s] :
             /\ s \in {Tickers[k] : k \in 1..Len(Tickers)}
             /\ DateLt(d, cfg.earliest_date)
    /\ \E s \in DOMAIN startDoc.series :
          \E d \in DOMAIN startDoc.series[s] :
             fileDoc.series[s][d] # startDoc.series[s][d]

\* C10 (as claimed): after every successful run the file holds the
\* provider, endpoint, field and earliest_date of that run's configuration.
C10_MetadataFollowsConfig ==
    pc = "done" =>
      /\ fileExists
      /\ fileDoc.data_source = cfg.data_source
      /\ fileDoc.earliest_date = cfg.earliest_date

====
